---- MODULE Spec2Model ----
(***************************************************************************)
(* Model of the gemini-chatbot-api relay: the Express chat handler with    *)
(* multer file staging (src/unnamed/part_000), the older JSON-only handler *)
(* (src/index.js) and the browser client (src/public/script.js).           *)
(*                                                                         *)
(* JavaScript strings are TLA+ strings; trim, split, startsWith, base64    *)
(* and concatenation are computed on them with Len, SubSeq and \o.         *)
(* A JavaScript object is a record, and a property that is undefined is a  *)
(* field the record does not have.                                         *)
(***************************************************************************)
EXTENDS Integers, Sequences, FiniteSets, TLC

\* ------------------------------------------------------------- bounds
\* Requests the model lets the clients send in one behaviour.
MaxRequests == 2
\* Longest history array a direct API caller sends.
MaxHist == 2

\* ------------------------------------------------------------ strings
\* s[i] of a string
CharAt(s, i) == SubSeq(s, i, i)

\* obj.f || dflt, for a string-valued property f
PropOr(obj, f, dflt) ==
  IF f \in DOMAIN obj /\ obj[f] # "" THEN obj[f] ELSE dflt

\* Truthiness of an object-valued property: there, or not.
Has(obj, f) == f \in DOMAIN obj

WhiteSpace == {" ", "\t", "\n"}

RECURSIVE TrimStart(_)
TrimStart(s) ==
  IF s # "" /\ CharAt(s, 1) \in WhiteSpace
    THEN TrimStart(SubSeq(s, 2, Len(s)))
    ELSE s

RECURSIVE TrimEnd(_)
TrimEnd(s) ==
  IF s # "" /\ CharAt(s, Len(s)) \in WhiteSpace
    THEN TrimEnd(SubSeq(s, 1, Len(s) - 1))
    ELSE s

\* String.prototype.trim
Trim(s) == TrimEnd(TrimStart(s))

\* String.prototype.startsWith
StartsWith(s, p) == Len(p) <= Len(s) /\ SubSeq(s, 1, Len(p)) = p

LowerOf(c) ==
  CASE c = "P" -> "p" [] c = "D" -> "d" [] c = "F" -> "f"
    [] c = "M" -> "m" [] c = "A" -> "a" [] c = "T" -> "t"
    [] OTHER -> c

\* String.prototype.toLowerCase
RECURSIVE ToLowerCase(_)
ToLowerCase(s) ==
  IF s = "" THEN ""
  ELSE LowerOf(CharAt(s, 1)) \o ToLowerCase(SubSeq(s, 2, Len(s)))

\* s.split('.').pop() : what follows the last '.', the whole string if none.
RECURSIVE LastDotPiece(_)
LastDotPiece(s) ==
  IF \E i \in 1..Len(s) : CharAt(s, i) = "."
    THEN LastDotPiece(SubSeq(s, 2, Len(s)))
    ELSE s

\* ------------------------------------------------- server: file helpers
\* fileFilter of the multer configuration: is the declared type accepted?
AllowedTypes == {"audio/", "application/pdf"}

FileFilterAccepts(mimetype) ==
  \E type \in AllowedTypes : StartsWith(mimetype, type)

\* limits.fileSize
FileSizeLimit == 50 * 1024 * 1024

\* getMimeType
GetMimeType(filePath) ==
  LET ext == ToLowerCase(LastDotPiece(filePath)) IN
  IF ext = "pdf" THEN "application/pdf"
  ELSE IF ext \in {"mp3", "wav", "m4a", "ogg"}
         THEN "audio/" \o (IF ext = "m4a" THEN "mp4" ELSE ext)
         ELSE "application/octet-stream"

\* The base64 alphabet; B64(n) is its n-th character, counting from 0.
Base64Alphabet ==
  "ABCDEFGHIJKLMNOPQRSTUVWXYZabcdefghijklmnopqrstuvwxyz0123456789+/"

B64(n) == CharAt(Base64Alphabet, n + 1)

\* Buffer.toString('base64') of a byte sequence.
RECURSIVE Base64Encode(_)
Base64Encode(bytes) ==
  IF Len(bytes) = 0 THEN ""
  ELSE IF Len(bytes) = 1 THEN
    B64(bytes[1] \div 4) \o B64((bytes[1] % 4) * 16) \o "=="
  ELSE IF Len(bytes) = 2 THEN
    B64(bytes[1] \div 4)
      \o B64((bytes[1] % 4) * 16 + bytes[2] \div 16)
      \o B64((bytes[2] % 16) * 4) \o "="
  ELSE
    B64(bytes[1] \div 4)
      \o B64((bytes[1] % 4) * 16 + bytes[2] \div 16)
      \o B64((bytes[2] % 16) * 4 + bytes[3] \div 64)
      \o B64(bytes[3] % 64)
      \o Base64Encode(SubSeq(bytes, 4, Len(bytes)))

\* --------------------------------------------- server: history handling
\* The callback of history.map: one turn to a Gemini content, or null.
Null == [null |-> TRUE]

\* Faulty variant: the role of a turn that is not the user's is not looked at.
NormalizeTurnAnyRole(msg) ==
  IF Has(msg, "role") /\ msg.role = "user" THEN
    LET text ==
          IF Has(msg, "file")
            THEN Trim(PropOr(msg, "text", "") \o " [File: "
                      \o PropOr(msg.file, "name", "uploaded file") \o "]")
            ELSE PropOr(msg, "text", PropOr(msg, "message", ""))
    IN [role |-> "user", parts |-> <<[text |-> text]>>]
  ELSE
    [role |-> "model",
     parts |-> <<[text |-> PropOr(msg, "text", PropOr(msg, "message", ""))]>>]

\* Faulty variant: the file placeholder is added whether or not the turn has a file.
NormalizeTurnAlwaysPlaceholder(msg) ==
  IF Has(msg, "role") /\ msg.role = "user" THEN
    [role |-> "user",
     parts |-> <<[text |->
        Trim(PropOr(msg, "text", PropOr(msg, "message", "")) \o " [File: "
             \o (IF Has(msg, "file")
                   THEN PropOr(msg.file, "name", "uploaded file")
                   ELSE "uploaded file")
             \o "]")]>>]
  ELSE IF Has(msg, "role") /\ msg.role = "model" THEN
    [role |-> "model",
     parts |-> <<[text |-> PropOr(msg, "text", PropOr(msg, "message", ""))]>>]
  ELSE Null

NormalizeTurn(msg) ==
  IF Has(msg, "role") /\ msg.role = "user" THEN
    LET text ==
          IF Has(msg, "file")
            THEN Trim(PropOr(msg, "text", "") \o " [File: "
                      \o PropOr(msg.file, "name", "uploaded file") \o "]")
            ELSE PropOr(msg, "text", PropOr(msg, "message", ""))
    IN [role |-> "user", parts |-> <<[text |-> text]>>]
  ELSE IF Has(msg, "role") /\ msg.role = "model" THEN
    [role |-> "model",
     parts |-> <<[text |-> PropOr(msg, "text", PropOr(msg, "message", ""))]>>]
  ELSE Null

\* The predicate of .filter
KeepContent(c) == c # Null /\ Len(c.parts[1].text) > 0

\* history.map(...).filter(...)
NormalizeHistory(history) ==
  SelectSeq([i \in 1..Len(history) |-> NormalizeTurn(history[i])], KeepContent)

\* const chatConfig = {}; if (chatHistory.length > 0) chatConfig.history = ...
\* The empty record is the object without a history property.
ChatConfig(chatHistory) ==
  IF Len(chatHistory) > 0 THEN [history |-> chatHistory] ELSE <<>>

\* if (history && Array.isArray(history) && history.length > 0) ... else []
\* A body property is [kind |-> "array", items |-> <<...>>] for a parsed JSON
\* array and [kind |-> "string", json |-> <<...>>] for a text that holds the
\* JSON of an array: Array.isArray tells them apart.
IsArray(v) == v.kind = "array"

ChatHistoryOf(body) ==
  IF Has(body, "history") /\ IsArray(body.history)
       /\ Len(body.history.items) > 0
    THEN NormalizeHistory(body.history.items)
    ELSE <<>>

\* !message
MessageMissing(body) == ~(Has(body, "message") /\ body.message # "")

\* Faulty variant: the file test is inverted.
MissingInputWithFile(body, file) == MessageMissing(body) /\ file # <<>>

\* if (!message && !file)
MissingInput(body, file) == MessageMissing(body) /\ file = <<>>

\* Faulty variant: the default prompt is pushed for every file, message or not.
ComposePartsPromptForEveryFile(body, file, fileData) ==
  (IF file # <<>>
     THEN <<[inlineData |->
               [data |-> fileData, mimeType |-> GetMimeType(file[1].path)]]>>
     ELSE <<>>)
  \o (IF ~MessageMissing(body) THEN <<[text |-> body.message]>> ELSE <<>>)
  \o (IF file # <<>>
        THEN <<[text |-> "Please analyze this file and provide insights."]>>
        ELSE <<>>)

\* The message parts: the file first, then the text or the default prompt.
ComposeParts(body, file, fileData) ==
  (IF file # <<>>
     THEN <<[inlineData |->
               [data |-> fileData, mimeType |-> GetMimeType(file[1].path)]]>>
     ELSE <<>>)
  \o (IF ~MessageMissing(body) THEN <<[text |-> body.message]>>
      ELSE IF file # <<>>
             THEN <<[text |-> "Please analyze this file and provide insights."]>>
             ELSE <<>>)

\* ---------------------------------------------------- server: the disk
\* The upload directory is a set of [path, bytes] entries.
ExistsSync(files, path) == \E f \in files : f.path = path

ReadFileSync(files, path) == (CHOOSE f \in files : f.path = path).bytes

UnlinkSync(files, path) == {f \in files : f.path # path}

\* filename: file.fieldname + '-' + uniqueSuffix + '-' + file.originalname,
\* in the upload directory; the suffix is the request's own.
StagedPath(id, originalname) ==
  "uploads/file-" \o ToString(id) \o "-" \o originalname

\* ------------------------------------------------------- JSON on the wire
\* JSON.stringify of an array: a string, not an array.
JsonStringify(v) == [kind |-> "string", json |-> v]

\* JSON.parse of such a string.
JsonParse(s) == s.json

\* ------------------------------------------------------------ responses
Json(status, body) == [status |-> status, type |-> "json", body |-> body]

\* Express's default error handler answers a middleware error with an HTML
\* page, status 500.
DefaultErrorResponse == [status |-> 500, type |-> "html", body |-> <<>>]

\* Faulty variant: the catch block answers without deleting the staged file.
CatchBlockNoCleanup(files, file, details, unlinkOk) ==
  [fs |-> files, threw |-> FALSE,
   res |-> <<Json(500, [error |-> "Failed to process chat message",
                        details |-> details])>>]

\* The catch block of the chat handler: delete the staged file if it is
\* there, then answer 500. unlinkSync may throw; nothing catches that, so
\* the handler's promise rejects and no response is sent.
CatchBlock(files, file, details, unlinkOk) ==
  IF file # <<>> /\ ExistsSync(files, file[1].path)
    THEN IF unlinkOk
           THEN [fs |-> UnlinkSync(files, file[1].path), threw |-> FALSE,
                 res |-> <<Json(500, [error |-> "Failed to process chat message",
                                      details |-> details])>>]
           ELSE [fs |-> files, threw |-> TRUE, res |-> <<>>]
    ELSE [fs |-> files, threw |-> FALSE,
          res |-> <<Json(500, [error |-> "Failed to process chat message",
                               details |-> details])>>]

\* What the client gets when the handler ended as in outcome o. A handler
\* whose promise rejects sends nothing itself: Express 5 passes the rejection
\* to its default error handler, Express 4 leaves the request unanswered.
ResponseAfter(o, expressMajor) ==
  IF o.threw /\ expressMajor = 5 THEN <<DefaultErrorResponse>> ELSE o.res

\* Under Express 4 nothing handles the rejection.
RejectionUnhandled(o, expressMajor) == o.threw /\ expressMajor = 4

\* The handler after a reply from upstream: delete the staged file, answer
\* 200. unlinkSync throwing here lands in the catch block.
AfterReply(files, file, text, unlinkOk, unlinkOkInCatch) ==
  IF file # <<>> /\ ExistsSync(files, file[1].path)
    THEN IF unlinkOk
           THEN [fs |-> UnlinkSync(files, file[1].path), threw |-> FALSE,
                 res |-> <<Json(200, [message |-> text])>>]
           ELSE CatchBlock(files, file, "unlink failed", unlinkOkInCatch)
    ELSE [fs |-> files, threw |-> FALSE,
          res |-> <<Json(200, [message |-> text])>>]

\* ===================================================================
\* State
\* ===================================================================
VARIABLES
  entry,               \* the app that serves: "part_000" or "index"
  client,              \* who sends the requests: the bundled "page" or an "api" caller
  express,             \* the installed Express major version, 4 or 5: the sources pin none
  chatHistory,         \* script.js: let chatHistory
  storage,             \* sessionStorage 'geminiChatHistory': <<>> or <<string>>
  selectedFile,        \* script.js: let selectedFile, <<>> for null
  formDisabled,        \* submit button, input and file input disabled
  pending,             \* the submit handler suspended at await fetch: <<>> or <<closure>>
  cleared,             \* the user confirmed a clear and has not submitted since
  req,                 \* the HTTP request in flight: <<>> or <<request>>
  spc,                 \* where the server is with it
  reqBody,             \* req.body
  reqFile,             \* req.file: <<>> or <<file>>
  res,                 \* the response sent: <<>> or <<response>>
  startChatCalls,      \* arguments of model.startChat for this request
  sendMessageCalls,    \* arguments of chat.sendMessage for this request
  upstreamOutcome,     \* "none", "replied" or "failed"
  unlinkFailed,        \* an unlinkSync threw while handling this request
  fs,                  \* the upload directory
  unhandledRejection,  \* a handler's promise rejected with nothing to catch it
  nextId               \* requests sent so far

vars ==
  <<entry, client, express, chatHistory, storage, selectedFile, formDisabled, pending,
    cleared, req, spc, reqBody, reqFile, res, startChatCalls,
    sendMessageCalls, upstreamOutcome, unlinkFailed, fs, unhandledRejection,
    nextId>>

deployVars == <<entry, client, express>>
pageVars ==
  <<chatHistory, storage, selectedFile, formDisabled, pending, cleared>>
requestVars ==
  <<req, spc, reqBody, reqFile, res, startChatCalls, sendMessageCalls,
    upstreamOutcome, unlinkFailed>>

\* ------------------------------------------------------------- inputs
\* Files the user may pick: accepted, wrong type, over the size limit,
\* accepted audio with an upper-case extension.
UserFiles ==
  { [name |-> "report.pdf", type |-> "application/pdf", size |-> 3,
     bytes |-> <<77, 97, 110>>],
    [name |-> "notes.txt", type |-> "text/plain", size |-> 2,
     bytes |-> <<104, 105>>],
    [name |-> "talk.wav", type |-> "audio/wav", size |-> 60 * 1024 * 1024,
     bytes |-> <<>>],
    [name |-> "clip.M4A", type |-> "audio/x-m4a", size |-> 1,
     bytes |-> <<255>>] }

\* What the user may have typed when submitting.
InputValues == {"", "hi "}

\* Texts the upstream model may reply.
Replies == {"ok"}

\* Turns a direct API caller may put in a history array.
ApiTurns ==
  { [role |-> "user", text |-> "summarize", file |-> [name |-> "report.pdf"]],
    [role |-> "system", text |-> "be brief"],
    [role |-> "model", message |-> "ok"],
    [role |-> "model", text |-> "ok"],
    [role |-> "user", text |-> ""],
    [role |-> "user", text |-> " hi", file |-> [name |-> ""]],
    [role |-> "user", text |-> "hi"],
    [role |-> "user", parts |-> <<[text |-> "hi"]>>] }

ApiHistories == UNION {[1..n -> ApiTurns] : n \in 0..MaxHist}

\* JSON bodies a direct API caller may send.
ApiBodies ==
  {m @@ h : m \in {<<>>, [message |-> "hi"]},
            h \in {<<>>} \cup
                  {[history |-> [kind |-> "array", items |-> a]] :
                     a \in ApiHistories}}

\* ===================================================================
\* Init
\* ===================================================================
Init ==
  /\ entry \in {"part_000", "index"}
  /\ client \in {"page", "api"}
  /\ express \in {4, 5}
  /\ chatHistory = <<>>
  /\ storage = <<>>
  /\ selectedFile = <<>>
  /\ formDisabled = FALSE
  /\ pending = <<>>
  /\ cleared = FALSE
  /\ req = <<>>
  /\ spc = "idle"
  /\ reqBody = <<>>
  /\ reqFile = <<>>
  /\ res = <<>>
  /\ startChatCalls = <<>>
  /\ sendMessageCalls = <<>>
  /\ upstreamOutcome = "none"
  /\ unlinkFailed = FALSE
  /\ fs = {}
  /\ unhandledRejection = FALSE
  /\ nextId = 0

\* The connection of a finished request closes; the next request starts on
\* fresh per-request state.
RequestClosed ==
  /\ req' = <<>>
  /\ spc' = "idle"
  /\ reqBody' = <<>>
  /\ reqFile' = <<>>
  /\ res' = <<>>
  /\ startChatCalls' = <<>>
  /\ sendMessageCalls' = <<>>
  /\ upstreamOutcome' = "none"
  /\ unlinkFailed' = FALSE

\* ===================================================================
\* The page (script.js)
\* ===================================================================
\* fileInput 'change' handler
SelectFile ==
  /\ client = "page"
  /\ ~formDisabled
  /\ \E f \in UserFiles : selectedFile' = <<f>>
  /\ UNCHANGED <<deployVars, chatHistory, storage, formDisabled, pending,
                 cleared, requestVars, fs, unhandledRejection, nextId>>

\* removeBtn.onclick
RemoveFile ==
  /\ client = "page"
  /\ selectedFile # <<>>
  /\ selectedFile' = <<>>
  /\ UNCHANGED <<deployVars, chatHistory, storage, formDisabled, pending,
                 cleared, requestVars, fs, unhandledRejection, nextId>>

\* The FormData of a submit: message if any, file if any, history always.
FormFields(messageText, history) ==
  (IF messageText # "" THEN [message |-> messageText] ELSE <<>>)
  @@ [history |-> JsonStringify(history)]

\* form 'submit' handler, up to await fetch
Submit ==
  /\ client = "page"
  /\ ~formDisabled
  /\ \E raw \in InputValues :
       LET userMessage == Trim(raw) IN
       IF userMessage = "" /\ selectedFile = <<>>
         THEN UNCHANGED vars
         ELSE /\ req = <<>>
              /\ nextId < MaxRequests
              /\ formDisabled' = TRUE
              /\ pending' = <<[messageText |-> userMessage,
                               fileToSend |-> selectedFile]>>
              /\ selectedFile' = <<>>
              /\ req' = <<[id |-> nextId + 1, contentType |-> "multipart",
                           fields |-> FormFields(userMessage, chatHistory),
                           upload |-> selectedFile]>>
              /\ spc' = "parse"
              /\ nextId' = nextId + 1
              /\ cleared' = FALSE
              /\ UNCHANGED <<deployVars, chatHistory, storage, reqBody,
                             reqFile, res, startChatCalls, sendMessageCalls,
                             upstreamOutcome, unlinkFailed, fs,
                             unhandledRejection>>

\* historyEntry and the model turn pushed after a successful exchange
HistoryEntries(p, reply) ==
  << [role |-> "user",
      text |-> IF p.messageText # "" THEN p.messageText
               ELSE "File: " \o (IF p.fileToSend # <<>>
                                   THEN p.fileToSend[1].name ELSE "")]
     @@ (IF p.fileToSend # <<>>
           THEN [file |-> [name |-> p.fileToSend[1].name,
                           type |-> p.fileToSend[1].type,
                           size |-> p.fileToSend[1].size]]
           ELSE <<>>),
     [role |-> "model", text |-> reply] >>

\* response.json() succeeds and response.ok
ResponseOk(response) ==
  response.type = "json" /\ response.status \in 200..299

\* Faulty variant: the user turn is pushed before the response is looked at.
HistoryAfterFetchUserTurnFirst(history, p, response) ==
  IF ResponseOk(response)
    THEN history \o HistoryEntries(p, response.body.message)
    ELSE Append(history, HistoryEntries(p, "")[1])

\* chatHistory after the try/catch around fetch, given the response
HistoryAfterFetch(history, p, response) ==
  IF ResponseOk(response)
    THEN history \o HistoryEntries(p, response.body.message)
    ELSE history

\* saveChatHistory: setItem may throw, which is logged and dropped
SaveChatHistory(stored, history, setItemOk) ==
  IF setItemOk THEN <<JsonStringify(history)>> ELSE stored

\* form 'submit' handler, from the resolved fetch to the end
Receive ==
  /\ client = "page"
  /\ spc = "done"
  /\ res # <<>>
  /\ pending # <<>>
  /\ \E setItemThrows \in BOOLEAN :
       /\ chatHistory' = HistoryAfterFetch(chatHistory, pending[1], res[1])
       /\ storage' = IF ResponseOk(res[1])
                       THEN SaveChatHistory(storage, chatHistory',
                                            ~setItemThrows)
                       ELSE storage
  /\ formDisabled' = FALSE
  /\ pending' = <<>>
  /\ RequestClosed
  /\ UNCHANGED <<deployVars, selectedFile, cleared, fs, unhandledRejection,
                 nextId>>

\* form 'submit' handler when fetch rejects, the server having closed the
\* connection without a response: the catch and finally blocks
FetchRejects ==
  /\ client = "page"
  /\ spc = "done"
  /\ res = <<>>
  /\ pending # <<>>
  /\ formDisabled' = FALSE
  /\ pending' = <<>>
  /\ RequestClosed
  /\ UNCHANGED <<deployVars, chatHistory, storage, selectedFile, cleared, fs,
                 unhandledRejection, nextId>>

\* clearBtn 'click' handler, confirmed: clearChatHistory
Clear ==
  /\ client = "page"
  /\ chatHistory' = <<>>
  /\ storage' = <<>>
  /\ selectedFile' = <<>>
  /\ cleared' = TRUE
  /\ UNCHANGED <<deployVars, formDisabled, pending, requestVars, fs,
                 unhandledRejection, nextId>>

\* The page is loaded again: the script's state starts over and
\* loadChatHistory reads the stored history.
Reload ==
  /\ client = "page"
  /\ chatHistory' = IF storage # <<>> THEN JsonParse(storage[1]) ELSE <<>>
  /\ selectedFile' = <<>>
  /\ formDisabled' = FALSE
  /\ pending' = <<>>
  /\ UNCHANGED <<deployVars, storage, cleared, requestVars, fs,
                 unhandledRejection, nextId>>

\* ===================================================================
\* A direct API caller
\* ===================================================================
ApiRequest ==
  /\ client = "api"
  /\ req = <<>>
  /\ nextId < MaxRequests
  /\ \E fields \in ApiBodies :
       req' = <<[id |-> nextId + 1, contentType |-> "json",
                 fields |-> fields, upload |-> <<>>]>>
  /\ spc' = "parse"
  /\ nextId' = nextId + 1
  /\ UNCHANGED <<deployVars, pageVars, reqBody, reqFile, res, startChatCalls,
                 sendMessageCalls, upstreamOutcome, unlinkFailed, fs,
                 unhandledRejection>>

\* The connection of a finished request closes with nobody waiting in the
\* page: an API caller's request, or one whose page was reloaded.
ConnectionClosed ==
  /\ spc = "done"
  /\ pending = <<>>
  /\ RequestClosed
  /\ UNCHANGED <<deployVars, pageVars, fs, unhandledRejection, nextId>>

\* ===================================================================
\* The chat app with file support (part_000)
\* ===================================================================
\* multer stages the upload only if fileFilter accepts its declared type,
\* it is within limits.fileSize and the disk write succeeds.
UploadAccepted(f, writeOk) ==
  FileFilterAccepts(f.type) /\ f.size <= FileSizeLimit /\ writeOk

\* express.json() and upload.single('file'), the middleware ahead of the
\* handler. A JSON body is parsed into req.body. Of a multipart body the
\* text fields go to req.body as strings and the file is staged; a rejected
\* upload goes to next(err), past the handler, which leaves no staged file.
ParseBody ==
  /\ entry = "part_000"
  /\ spc = "parse"
  /\ reqBody' = req[1].fields
  /\ IF req[1].upload = <<>>
       THEN /\ reqFile' = <<>>
            /\ spc' = "handler"
            /\ UNCHANGED <<fs, res>>
       ELSE \E writeThrows \in BOOLEAN :
              LET f == req[1].upload[1]
                  path == StagedPath(req[1].id, f.name)
              IN IF UploadAccepted(f, ~writeThrows)
                   THEN /\ fs' = fs \cup {[path |-> path, bytes |-> f.bytes]}
                        /\ reqFile' = <<[path |-> path, originalname |-> f.name,
                                         mimetype |-> f.type, size |-> f.size]>>
                        /\ spc' = "handler"
                        /\ res' = res
                   ELSE /\ res' = <<DefaultErrorResponse>>
                        /\ spc' = "done"
                        /\ UNCHANGED <<fs, reqFile>>
  /\ UNCHANGED <<deployVars, pageVars, req, startChatCalls, sendMessageCalls,
                 upstreamOutcome, unlinkFailed, unhandledRejection, nextId>>

\* fileToBase64
FileToBase64(files, filePath) == Base64Encode(ReadFileSync(files, filePath))

\* The handler of POST /api/chat, up to await chat.sendMessage(parts).
\* startChat and readFileSync may throw.
Handler ==
  /\ entry = "part_000"
  /\ spc = "handler"
  /\ IF MissingInput(reqBody, reqFile)
       THEN /\ res' = <<Json(400, [error |-> "Message or file is required"])>>
            /\ spc' = "done"
            /\ UNCHANGED <<startChatCalls, sendMessageCalls, unlinkFailed, fs,
                           unhandledRejection>>
       ELSE \E startThrows, readThrows, unlinkThrows \in BOOLEAN :
              LET startOk == ~startThrows
                  canRead == IF reqFile = <<>> THEN TRUE
                             ELSE ~readThrows
                                  /\ ExistsSync(fs, reqFile[1].path)
                  fileData == IF reqFile # <<>> /\ canRead
                                THEN FileToBase64(fs, reqFile[1].path)
                                ELSE ""
                  caught == CatchBlock(fs, reqFile,
                                       IF startOk THEN "read failed"
                                       ELSE "startChat failed",
                                       ~unlinkThrows)
              IN /\ startChatCalls' = <<ChatConfig(ChatHistoryOf(reqBody))>>
                 /\ IF startOk /\ canRead
                      THEN /\ sendMessageCalls' =
                                <<ComposeParts(reqBody, reqFile, fileData)>>
                           /\ spc' = "await"
                           /\ UNCHANGED <<res, unlinkFailed, fs,
                                          unhandledRejection>>
                      ELSE /\ fs' = caught.fs
                           /\ res' = ResponseAfter(caught, express)
                           /\ unlinkFailed' = caught.threw
                           /\ unhandledRejection' =
                                IF RejectionUnhandled(caught, express)
                                  THEN TRUE ELSE unhandledRejection
                           /\ spc' = "done"
                           /\ UNCHANGED sendMessageCalls
  /\ UNCHANGED <<deployVars, pageVars, req, reqBody, reqFile,
                 upstreamOutcome, nextId>>

\* The handler from the settled sendMessage to its end.
UpstreamSettles ==
  /\ entry = "part_000"
  /\ spc = "await"
  /\ \E failed, unlinkThrows, unlinkThrowsInCatch \in BOOLEAN,
        text \in Replies :
       LET replied == ~failed
           unlinkOk == ~unlinkThrows
           unlinkOkInCatch == ~unlinkThrowsInCatch
           o == IF replied
                  THEN AfterReply(fs, reqFile, text, unlinkOk, unlinkOkInCatch)
                  ELSE CatchBlock(fs, reqFile, "upstream failed", unlinkOk)
       IN /\ upstreamOutcome' = IF replied THEN "replied" ELSE "failed"
          /\ fs' = o.fs
          /\ res' = ResponseAfter(o, express)
          /\ unlinkFailed' =
               (reqFile # <<>> /\ ExistsSync(fs, reqFile[1].path) /\ ~unlinkOk)
          /\ unhandledRejection' =
               IF RejectionUnhandled(o, express)
                 THEN TRUE ELSE unhandledRejection
  /\ spc' = "done"
  /\ UNCHANGED <<deployVars, pageVars, req, reqBody, reqFile, startChatCalls,
                 sendMessageCalls, nextId>>

\* ===================================================================
\* The older chat app (index.js)
\* ===================================================================
\* express.json() alone: a JSON body is parsed; of any other body Express 4
\* leaves req.body the empty object and Express 5 leaves it undefined.
BodyDefined(r, expressMajor) == r.contentType = "json" \/ expressMajor = 4

IndexBody(r) == IF r.contentType = "json" THEN r.fields ELSE <<>>

\* The handler of POST /api/chat, up to await chat.sendMessage(message).
IndexHandler ==
  /\ entry = "index"
  /\ spc = "parse"
  /\ reqBody' = IndexBody(req[1])
  /\ IF ~BodyDefined(req[1], express)
       THEN \* destructuring undefined throws, inside the try
            /\ res' = <<Json(500, [error |-> "Failed to process chat message"])>>
            /\ spc' = "done"
            /\ UNCHANGED <<startChatCalls, sendMessageCalls>>
       ELSE IF MessageMissing(reqBody')
       THEN /\ res' = <<Json(400, [error |-> "Message is required"])>>
            /\ spc' = "done"
            /\ UNCHANGED <<startChatCalls, sendMessageCalls>>
       ELSE \E startThrows \in BOOLEAN :
              /\ startChatCalls' =
                   <<[history |-> IF Has(reqBody', "history")
                                    THEN reqBody'.history
                                    ELSE [kind |-> "array", items |-> <<>>]]>>
              /\ IF ~startThrows
                   THEN /\ sendMessageCalls' = <<reqBody'.message>>
                        /\ spc' = "await"
                        /\ res' = res
                   ELSE /\ res' = <<Json(500,
                             [error |-> "Failed to process chat message"])>>
                        /\ spc' = "done"
                        /\ UNCHANGED sendMessageCalls
  /\ UNCHANGED <<deployVars, pageVars, req, reqFile, upstreamOutcome,
                 unlinkFailed, fs, unhandledRejection, nextId>>

\* The handler from the settled sendMessage to its end.
IndexUpstreamSettles ==
  /\ entry = "index"
  /\ spc = "await"
  /\ \E failed \in BOOLEAN, text \in Replies :
       /\ upstreamOutcome' = IF failed THEN "failed" ELSE "replied"
       /\ res' = IF ~failed
                   THEN <<Json(200, [message |-> text])>>
                   ELSE <<Json(500,
                          [error |-> "Failed to process chat message"])>>
  /\ spc' = "done"
  /\ UNCHANGED <<deployVars, pageVars, req, reqBody, reqFile, startChatCalls,
                 sendMessageCalls, unlinkFailed, fs, unhandledRejection,
                 nextId>>

\* ===================================================================
\* Specification
\* ===================================================================
Next ==
  \/ SelectFile
  \/ RemoveFile
  \/ Submit
  \/ Receive
  \/ FetchRejects
  \/ Clear
  \/ Reload
  \/ ApiRequest
  \/ ConnectionClosed
  \/ ParseBody
  \/ Handler
  \/ UpstreamSettles
  \/ IndexHandler
  \/ IndexUpstreamSettles

Spec == Init /\ [][Next]_vars

\* ===================================================================
\* Properties
\* ===================================================================
\* The history the upstream session of this request was opened with.
Seeded ==
  IF Has(startChatCalls[1], "history") THEN startChatCalls[1].history ELSE <<>>

\* The request on the wire carries neither a message nor a file.
NoInput(r) ==
  /\ ~("message" \in DOMAIN r.fields /\ r.fields.message # "")
  /\ r.upload = <<>>

\* The response is the 500 JSON body {error, details}.
IsError500(response) ==
  /\ response.status = 500
  /\ response.type = "json"
  /\ DOMAIN response.body = {"error", "details"}

\* The response is the 200 JSON body {message}.
IsReply200(response) ==
  /\ response.status = 200
  /\ response.type = "json"
  /\ DOMAIN response.body = {"message"}

\* The handler itself has sent the response: its responses are res.json
\* bodies, the default error handler's is an HTML page.
HandlerResponded == res # <<>> /\ res[1].type = "json"

\* ------------------------------------------------------------------ C1
\* C1: once the chat handler has sent its response to a request whose
\* attachment was staged, the staged file is no longer in the upload
\* directory, whichever way the handler ended.
C1_StagedFileGoneAfterResponse ==
  (entry = "part_000" /\ reqFile # <<>> /\ HandlerResponded)
    => ~ExistsSync(fs, reqFile[1].path)

\* A staged request answered 500 after sendMessage failed.
C1_Witness ==
  /\ entry = "part_000"
  /\ reqFile # <<>>
  /\ HandlerResponded
  /\ res[1].status = 500
  /\ upstreamOutcome = "failed"

FieldOrEmpty(t, f) == IF f \in DOMAIN t THEN t[f] ELSE ""

ClaimDerivedText(t) ==
  IF t.role = "user" /\ "file" \in DOMAIN t
    THEN Trim(FieldOrEmpty(t, "text") \o " [File: "
              \o (IF FieldOrEmpty(t.file, "name") # ""
                    THEN t.file.name ELSE "uploaded file")
              \o "]")
    ELSE IF FieldOrEmpty(t, "text") # ""
           THEN t.text ELSE FieldOrEmpty(t, "message")

ClaimKeeps(t) ==
  /\ "role" \in DOMAIN t
  /\ t.role \in {"user", "model"}
  /\ ClaimDerivedText(t) # ""

ClaimNormalized(h) ==
  LET kept == SelectSeq(h, ClaimKeeps) IN
  [i \in 1..Len(kept) |->
     [role |-> kept[i].role,
      parts |-> <<[text |-> ClaimDerivedText(kept[i])]>>]]

\* The chat app has opened the upstream session for a request whose body
\* holds a history array.
NormalizedArrayHistory ==
  /\ entry = "part_000"
  /\ startChatCalls # <<>>
  /\ Has(reqBody, "history")
  /\ IsArray(reqBody.history)

\* C6: the normalized history has, in order, one {role, parts:[{text}]}
\* entry for each input turn of role user or model whose derived text is
\* not empty, and nothing for any other turn; a system turn is dropped and
\* the report.pdf turn reads 'summarize [File: report.pdf]'.
C6_NormalizationShape ==
  NormalizedArrayHistory =>
    LET h == reqBody.history.items IN
    /\ Seeded = ClaimNormalized(h)
    /\ h = <<[role |-> "system", text |-> "be brief"]>> => Seeded = <<>>
    /\ h = <<[role |-> "user", text |-> "summarize",
              file |-> [name |-> "report.pdf"]]>>
         => Seeded = <<[role |-> "user",
                        parts |-> <<[text |-> "summarize [File: report.pdf]"]>>]>>

\* The session was seeded from a system turn followed by the report.pdf turn.
C6_Witness ==
  /\ NormalizedArrayHistory
  /\ reqBody.history.items =
       <<[role |-> "system", text |-> "be brief"],
         [role |-> "user", text |-> "summarize",
          file |-> [name |-> "report.pdf"]]>>
  /\ Seeded = <<[role |-> "user",
                 parts |-> <<[text |-> "summarize [File: report.pdf]"]>>]>>

\* ------------------------------------------------------------------ C7
\* A plain turn has a role and a text and nothing else.
IsPlain(h) == \A i \in 1..Len(h) : DOMAIN h[i] = {"role", "text"}

\* The history is what normalizing some plain history gives.
IsFirstPassOutput(h) ==
  \E g \in ApiHistories : IsPlain(g) /\ NormalizeHistory(g) = h

\* Normalized entries read back as plain turns: text := parts[0].text.
AsPlainTurns(contents) ==
  [i \in 1..Len(contents) |->
     [role |-> contents[i].role, text |-> contents[i].parts[1].text]]

\* C7 as stated: the output of one normalization of a plain history, fed
\* back in as the history of a request, normalizes to itself.
C7_IdempotentWhenFedBack ==
  (NormalizedArrayHistory /\ IsFirstPassOutput(reqBody.history.items))
    => Seeded = reqBody.history.items

\* C7 amended: the normalization of a plain history, read back as plain
\* turns (text := parts[0].text) and normalized again, is unchanged.
C7_IdempotentUpToShape ==
  (NormalizedArrayHistory /\ IsPlain(reqBody.history.items))
    => NormalizeHistory(AsPlainTurns(Seeded)) = Seeded

\* A plain history of a user and a model turn has been normalized.
C7_Witness ==
  /\ NormalizedArrayHistory
  /\ IsPlain(reqBody.history.items)
  /\ Len(Seeded) = 2
  /\ Seeded[2].role = "model"

\* ------------------------------------------------------------------ C8
\* The number a base64 character stands for.
B64Index(c) == CHOOSE n \in 0..63 : B64(n) = c

\* The bytes a base64 text stands for.
RECURSIVE Base64Decode(_)
Base64Decode(text) ==
  IF text = "" THEN <<>>
  ELSE LET a == B64Index(CharAt(text, 1))
           b == B64Index(CharAt(text, 2))
           rest == SubSeq(text, 5, Len(text))
       IN IF CharAt(text, 3) = "=" THEN <<a * 4 + b \div 16>>
          ELSE LET c == B64Index(CharAt(text, 3)) IN
               IF CharAt(text, 4) = "="
                 THEN <<a * 4 + b \div 16, (b % 16) * 16 + c \div 4>>
                 ELSE <<a * 4 + b \div 16, (b % 16) * 16 + c \div 4,
                        (c % 4) * 64 + B64Index(CharAt(text, 4))>>
                      \o Base64Decode(rest)

\* C8: the parts sent upstream are the inline part (the upload's bytes in
\* base64, with a MIME type) first exactly when there is an attachment,
\* then exactly one text part: the message if there is one, the default
\* prompt otherwise.
C8_PartsComposition ==
  (entry = "part_000" /\ sendMessageCalls # <<>>) =>
    LET parts == sendMessageCalls[1]
        fields == req[1].fields
        upload == req[1].upload
        hasMessage == "message" \in DOMAIN fields /\ fields.message # ""
    IN /\ Len(parts) = (IF upload # <<>> THEN 2 ELSE 1)
       /\ (upload # <<>>) <=> ("inlineData" \in DOMAIN parts[1])
       /\ upload # <<>> =>
            /\ DOMAIN parts[1].inlineData = {"data", "mimeType"}
            /\ Base64Decode(parts[1].inlineData.data) = upload[1].bytes
            /\ parts[1].inlineData.mimeType # ""
       /\ parts[Len(parts)] =
            [text |-> IF hasMessage THEN fields.message
                      ELSE "Please analyze this file and provide insights."]

\* Parts were sent for an attachment without a message.
C8_Witness ==
  /\ entry = "part_000"
  /\ sendMessageCalls # <<>>
  /\ req[1].upload # <<>>
  /\ "message" \notin DOMAIN req[1].fields
  /\ Len(sendMessageCalls[1]) = 2

\* ------------------------------------------------------------------ C2
\* C2 as stated: when the page sends a non-empty history, the chat app
\* opens the upstream session seeded with the normalized form of exactly
\* those turns.
C2_PageHistorySeedsSession ==
  (/\ entry = "part_000"
   /\ client = "page"
   /\ req # <<>>
   /\ startChatCalls # <<>>
   /\ Len(JsonParse(req[1].fields.history)) > 0)
    => Seeded = NormalizeHistory(JsonParse(req[1].fields.history))

\* ------------------------------------------------------------------ C4
\* The upload of the request was of an accepted type and size and still
\* was not staged: the write to the upload directory failed.
StagingWriteFailed ==
  /\ req[1].upload # <<>>
  /\ reqFile = <<>>
  /\ FileFilterAccepts(req[1].upload[1].type)
  /\ req[1].upload[1].size <= FileSizeLimit

\* C4 as stated: a request that passed validation and failed (an upload
\* rejected for its type or its size, a failed disk read, a failed upstream
\* call) is answered 500 with the JSON body {error, details}, and its
\* handler's promise does not reject. Failed writes at staging are not
\* among the claim's failures, and failing deletions are left to C5.
C4_FailuresAnsweredWithJson ==
  (/\ entry = "part_000"
   /\ spc = "done"
   /\ ~NoInput(req[1])
   /\ upstreamOutcome # "replied"
   /\ ~StagingWriteFailed
   /\ ~unlinkFailed)
    => /\ res # <<>>
       /\ IsError500(res[1])
       /\ ~unhandledRejection

\* ------------------------------------------------------------------ C5
\* C5 as stated: when deleting the staged file fails, the request is still
\* answered as it would have been: 200 {message} after an upstream reply,
\* 500 {error, details} otherwise.
C5_DeletionFailureSwallowed ==
  (entry = "part_000" /\ spc = "done" /\ unlinkFailed)
    => /\ res # <<>>
       /\ IF upstreamOutcome = "replied"
            THEN IsReply200(res[1])
            ELSE IsError500(res[1])

\* ------------------------------------------------------------------ C9
\* The step in which the submit handler of the page runs to its end.
SubmitCompletes ==
  /\ pending # <<>>
  /\ pending' = <<>>
  /\ req # <<>>
  /\ req' = <<>>

\* The request of the pending submit succeeded: a response that parses as
\* JSON, with an OK status.
RequestSucceeded ==
  /\ res # <<>>
  /\ res[1].type = "json"
  /\ res[1].status = 200

\* chatHistory grows by the user turn and the model reply, in that order.
AppendsExchange ==
  /\ Len(chatHistory') = Len(chatHistory) + 2
  /\ SubSeq(chatHistory', 1, Len(chatHistory)) = chatHistory
  /\ chatHistory'[Len(chatHistory) + 1].role = "user"
  /\ pending[1].messageText # "" =>
       chatHistory'[Len(chatHistory) + 1].text = pending[1].messageText
  /\ chatHistory'[Len(chatHistory) + 2] =
       [role |-> "model", text |-> res[1].body.message]

\* The history is a sequence of (user, model) pairs.
PairsOfTurns(h) ==
  /\ Len(h) % 2 = 0
  /\ \A i \in 1..Len(h) :
       h[i].role = (IF i % 2 = 1 THEN "user" ELSE "model")

\* C9 as stated: a failed submit leaves chatHistory and the stored entry
\* as they were; a successful one appends the exchange and stores the
\* whole history; the history is always a sequence of (user, model) pairs.
C9_SubmitFrame ==
  /\ [][SubmitCompletes =>
          IF RequestSucceeded
            THEN AppendsExchange /\ storage' = <<JsonStringify(chatHistory')>>
            ELSE UNCHANGED <<chatHistory, storage>>]_vars
  /\ [](PairsOfTurns(chatHistory)
        /\ (storage # <<>> => PairsOfTurns(JsonParse(storage[1]))))

\* C9 amended: as C9, but the write to sessionStorage may throw, which is
\* swallowed and leaves the stored entry as it was.
C9_SubmitFrameBestEffortSave ==
  /\ [][SubmitCompletes =>
          IF RequestSucceeded
            THEN /\ AppendsExchange
                 /\ storage' \in {<<JsonStringify(chatHistory')>>, storage}
            ELSE UNCHANGED <<chatHistory, storage>>]_vars
  /\ [](PairsOfTurns(chatHistory)
        /\ (storage # <<>> => PairsOfTurns(JsonParse(storage[1]))))

\* Two submits have completed, one of them failed, and the history and the
\* stored entry hold the one exchange that succeeded.
C9_Witness ==
  /\ Len(chatHistory) = 2
  /\ storage = <<JsonStringify(chatHistory)>>
  /\ nextId = 2
  /\ req = <<>>

\* ----------------------------------------------------------------- C10
\* C10 as stated: from a confirmed clear until the next submit, chatHistory
\* and the stored entry are empty, also when a request was in flight when
\* the user cleared.
C10_ClearedStaysEmpty ==
  cleared => (chatHistory = <<>> /\ storage = <<>>)

====
